---- MODULE Spec2Model ----
(***************************************************************************)
(* Model of the SDTrimSP input-file codec (src/SDTrimSettings.py):         *)
(* InputSettings.extractVariables, getWriteInputFileString and             *)
(* loadInputFile, together with the registry tables of InputSettings.      *)
(*                                                                         *)
(* Numbers are modelled as integers: every number the model writes or      *)
(* reads is integral, and Python compares int and float by value.  A text  *)
(* line is a record of the pieces line.strip().split('=') and the later    *)
(* splits cut it into: whether it has an '=', the '!' sentinel, the name,  *)
(* the index suffix and the comma-separated value tokens.                  *)
(***************************************************************************)
EXTENDS Integers, Sequences, FiniteSets, TLC

\* ---------------------------------------------------------------- bounds
MaxLines == 2          \* lines of a free-form file (specification Spec)
MaxNum == 19           \* largest number a value token denotes
MaxExtra == 2          \* lines typed into the additional-settings box
MaxCenti == 300        \* largest two-decimal number of a layer file, in 1/100
MaxKept == 3           \* decoded additional settings a further cycle starts from

\* ---------------------------------------------------------------- values
None == [t |-> "None"]
Unbound == [t |-> "Unbound"]
Num(n) == [t |-> "num", n |-> n]
Bool(b) == [t |-> "bool", b |-> b]
Str(x) == [t |-> "str", s |-> x]
List(l) == [t |-> "list", l |-> l]

NoIdx == -1            \* elementIndex = None

Range(f) == {f[i] : i \in DOMAIN f}

\* ---------------------------------------------------------------- registry
varNames ==
  << "ncp", "symbol", "dns0", "e_surfb", "e_displ", "occurrence",
     "globaldensity", "inel0", "nh", "idout", "nr_pproj", "flc",
     "idrel", "ipot", "iintegral", "isbv", "qubeam", "case_e0", "e0",
     "case_alpha", "alpha0", "number_calc",
     "qu", "qumax", "ttarget", "nqx", "iq0",
     "lparticle_p", "lparticle_r", "lmatrices" >>

VarSet == Range(varNames)

IndexOf(name) == CHOOSE i \in 1..Len(varNames) : varNames[i] = name

customVars == << "globaldensity", "occurrence" >>

defaultValues ==
  [ ncp |-> Num(2), symbol |-> Str("H"), dns0 |-> None, e_surfb |-> None,
    e_displ |-> None, globaldensity |-> List(<< Bool(FALSE), Num(0) >>),
    inel0 |-> Num(3), nh |-> Num(1000), idout |-> Num(-1),
    nr_pproj |-> Num(10), flc |-> Num(1), idrel |-> Num(1), ipot |-> Num(0),
    iintegral |-> Num(2), isbv |-> Num(0), qubeam |-> Num(1),
    case_e0 |-> Num(0), e0 |-> Num(0), case_alpha |-> Num(0),
    alpha0 |-> Num(0), number_calc |-> Num(19), qu |-> Num(1),
    qumax |-> Num(1), ttarget |-> Num(2000), nqx |-> Num(0), iq0 |-> Num(0),
    lparticle_p |-> Bool(FALSE), lparticle_r |-> Bool(FALSE),
    lmatrices |-> Bool(FALSE) ]

validRange ==
  [ inel0 |-> << 1, 6 >>, iintegral |-> << 0, 2 >>, case_e0 |-> << 0, 6 >>,
    case_alpha |-> << 0, 6 >>, isbv |-> << 1, 7 >>, ipot |-> << 1, 6 >> ]

\* ignoredVars without the tableinp prefix
ignoredVars_OutputOnly == << "ioutput_part" >>

ignoredVars == << "ioutput_part", "tableinp" >>

listVars ==
  << "symbol", "dns0", "e_surfb", "e_displ", "inel0", "qubeam", "e0",
     "alpha0", "qu", "qumax" >>

boolVars == << "lparticle_p", "lparticle_r", "lmatrices" >>

\* blockStarts with the beam label carried by e0 instead of qubeam
blockStarts_BeamAtE0 ==
  [ nh |-> "general", e0 |-> "beam", qu |-> "target",
    lparticle_p |-> "output options" ]

blockStarts ==
  [ nh |-> "general", qubeam |-> "beam", qu |-> "target",
    lparticle_p |-> "output options" ]

\* the three optional arrays (the literal list of lines 182 and 346)
sparseVars == { "dns0", "e_surfb", "e_displ" }

\* ---------------------------------------------------------------- text
Digit == [d \in 0..9 |-> CASE d = 0 -> "0" [] d = 1 -> "1" [] d = 2 -> "2"
                           [] d = 3 -> "3" [] d = 4 -> "4" [] d = 5 -> "5"
                           [] d = 6 -> "6" [] d = 7 -> "7" [] d = 8 -> "8"
                           [] d = 9 -> "9"]

RECURSIVE ToStr(_)
\* str(n) of an integer
ToStr(n) ==
  IF n < 0 THEN "-" \o ToStr(-n)
  ELSE IF n < 10 THEN Digit[n]
  ELSE ToStr(n \div 10) \o Digit[n % 10]

NumRange == (-1)..MaxNum

\* float(tok): the tokens that denote a number
IsNum(tok) == \E n \in NumRange : ToStr(n) = tok
ParseFloat(tok) == CHOOSE n \in NumRange : ToStr(n) = tok

\* the element database (ElementData.elements): some elements of table1
\* with the three properties the codec compares against
Element(sym, dens, sbe, displ) ==
  [t |-> "element", symbol |-> sym, atomic_density |-> dens,
   surface_binding_energy |-> sbe, displacement_energy |-> displ]

elements ==
  [ H |-> Element("H", 4, 1, 5), He |-> Element("He", 2, 0, 3),
    W |-> Element("W", 6, 8, 9) ]

ElementSymbols == DOMAIN elements
\* every symbol text the model uses, resolvable or not
SymbolTexts == ElementSymbols \cup { "XX" }

elementFromSymbol(sym) == IF sym \in ElementSymbols THEN elements[sym] ELSE None

Quote(sym) == "\"" \o sym \o "\""

\* s.replace('"', '').strip()
Unquote(tok) ==
  IF \E sym \in SymbolTexts : Quote(sym) = tok
  THEN CHOOSE sym \in SymbolTexts : Quote(sym) = tok
  ELSE tok

\* str.lower(data[0]) == '.true.'
IsFortranTrue(tok) == tok \in { ".true.", ".TRUE.", ".True." }

\* varName.startswith(var), over the names the model uses
StartsWith(name, prefix) ==
  \/ name = prefix
  \/ prefix = "tableinp" /\ name = "tableinp_dir"

\* int(d[0]) == 1, int(d[1]) == 1 for a two-digit token
OccFirst == { "10", "11" } \cup { ToStr(n) : n \in 10..MaxNum }
OccSecond == { "01", "11" }
OccTokens == { "00", "01" } \cup OccFirst

Line(name, data) ==
  [eq |-> TRUE, bang |-> FALSE, name |-> name, idx |-> NoIdx, data |-> data]
IdxLine(name, k, data) ==
  [eq |-> TRUE, bang |-> FALSE, name |-> name, idx |-> k, data |-> data]
BangLine(name, data) ==
  [eq |-> TRUE, bang |-> TRUE, name |-> name, idx |-> NoIdx, data |-> data]
RawLine(txt) ==
  [eq |-> FALSE, bang |-> FALSE, name |-> txt, idx |-> NoIdx, data |-> << >>]

\* ---------------------------------------------------------------- state
VARIABLES
  allVarNames,         \* InputSettings.allVarNames: None or the set of names
  gui,                 \* the arguments createSettingsObject hands to the encoder
  settings,            \* the InputSettings object filled by extractVariables
  file,                \* the lines of the input file after the title line
  lineNr,              \* number of lines loadInputFile has consumed
  v,                   \* loadInputFile's v, by variable name
  alerts,              \* loadInputFile's alerts
  additionalSettings,  \* loadInputFile's additionalSettings
  s,                   \* loadInputFile's local s (bound by the loop of line 309)
  errors,              \* the findings of checkForAdditionalSettingErrors
  layersFile,          \* the lines of the layer file, None before it is written
  targetLayers,        \* the result of loadLayersFile, None before the call
  pc                   \* position of the running operation

vars ==
  << allVarNames, gui, settings, file, lineNr, v, alerts, additionalSettings,
     s, errors, layersFile, targetLayers, pc >>

\* ---------------------------------------------------------------- alerts
\* An alert string, by its content: the pass that appended it, the message
\* kind, the variable, the line number (lineNr + 2) and the element index.
Alert(phase, kind, var, line, idx) ==
  [phase |-> phase, kind |-> kind, var |-> var, line |-> line, idx |-> idx]

\* ---------------------------------------------------------------- decoder
\* checkValueRange: exc names the exception the call ends with ("" if none)
checkValueRange(varName, val) ==
  IF varName \notin DOMAIN validRange
  THEN [exc |-> "", val |-> val, msg |-> FALSE]
  ELSE LET l == validRange[varName][1]
           u == validRange[varName][2]
       IN IF val.t # "num"
          THEN \* None < l
               [exc |-> "TypeError", val |-> val, msg |-> FALSE]
          ELSE IF val.n < l \/ val.n > u
          THEN \* the message reads lineNr, a name this function does not have
               [exc |-> "NameError",
                val |-> Num(IF val.n < l THEN l ELSE u), msg |-> TRUE]
          ELSE [exc |-> "", val |-> val, msg |-> FALSE]

\* while len(v[idx]) <= elementIndex-1: v[idx].append(None)
Grow(l, elementIndex) ==
  IF Len(l) >= elementIndex THEN l
  ELSE l \o [i \in 1..(elementIndex - Len(l)) |-> None]

RECURSIVE SymbolAlerts_ZeroBased(_, _, _)
\* SymbolAlerts with the position reported as i instead of i + 1
SymbolAlerts_ZeroBased(syms, i, ln) ==
  IF i > Len(syms) THEN << >>
  ELSE (IF elementFromSymbol(syms[i]) = None
        THEN << Alert("scan", "symbolUnknown", syms[i], ln, i - 1) >>
        ELSE << >>) \o SymbolAlerts_ZeroBased(syms, i + 1, ln)

RECURSIVE SymbolAlerts(_, _, _)
\* the alerts of the loop of lines 309-312, for entries i..len
SymbolAlerts(syms, i, ln) ==
  IF i > Len(syms) THEN << >>
  ELSE (IF elementFromSymbol(syms[i]) = None
        THEN << Alert("scan", "symbolUnknown", syms[i], ln, i) >>
        ELSE << >>) \o SymbolAlerts(syms, i + 1, ln)

\* for val in v[idx]: checkValueRange(varName, val)
RangeLoopRaises(varName, l) ==
  \E i \in 1..Len(l) : checkValueRange(varName, l[i]).exc # ""

Raised == [exc |-> TRUE, val |-> None, alerts |-> << >>, s |-> Unbound]
Done(val, newAlerts, newS) ==
  [exc |-> FALSE, val |-> val, alerts |-> newAlerts, s |-> newS]
RaisedWith(newS) == [exc |-> TRUE, val |-> None, alerts |-> << >>, s |-> newS]

\* the list branch, lines 293-319
ListBranch(old, oldS, varName, elementIndex, data, ln) ==
  LET cur == IF old = None THEN << >> ELSE old.l
      grown == Grow(cur, elementIndex)
      k == IF elementIndex = 0 THEN Len(grown) ELSE elementIndex
      syms == [i \in 1..Len(data) |-> Unquote(data[i])]
      res ==
        IF elementIndex # NoIdx
        THEN IF Len(grown) = 0
             THEN RaisedWith(oldS)               \* IndexError at [-1]
             ELSE IF varName = "symbol"
             THEN IF oldS = Unbound
                  THEN RaisedWith(oldS)          \* s is not bound yet
                  ELSE IF elementFromSymbol(oldS.s) = None
                  THEN Done(List([grown EXCEPT ![k] = Str("H")]),
                            << Alert("scan", "symbolUnknown", oldS.s, ln,
                                     elementIndex) >>, oldS)
                  ELSE Done(List([grown EXCEPT ![k] = Str(syms[1])]),
                            << >>, oldS)
             ELSE IF ~IsNum(data[1])
                  THEN RaisedWith(oldS)
                  ELSE Done(List([grown EXCEPT ![k] =
                                    Num(ParseFloat(data[1]))]), << >>, oldS)
        ELSE IF varName = "symbol"
        THEN Done(List([i \in 1..Len(syms) |->
                          IF elementFromSymbol(syms[i]) = None
                          THEN Str("H") ELSE Str(syms[i])]),
                  SymbolAlerts(syms, 1, ln), Str(syms[Len(syms)]))
        ELSE IF \E i \in 1..Len(data) : ~IsNum(data[i])
             THEN RaisedWith(oldS)
             ELSE Done(List([i \in 1..Len(data) |-> Num(ParseFloat(data[i]))]),
                       << >>, oldS)
  IN IF res.exc THEN res
     ELSE IF RangeLoopRaises(varName, res.val.l)
     THEN [exc |-> TRUE, val |-> None, alerts |-> res.alerts, s |-> res.s]
     ELSE res

\* the scalar branch, lines 323-332
ScalarBranch(oldS, varName, data, ln) ==
  IF ~IsNum(data[1]) THEN RaisedWith(oldS)
  ELSE LET val0 == ParseFloat(data[1])
           isFour == varName = "case_e0" /\ val0 = 4
           val1 == IF varName = "idrel" /\ val0 # 0
                   THEN (IF val0 < 0 THEN -1 ELSE 1)
                   ELSE IF isFour THEN 0 ELSE val0
           pre == IF isFour
                  THEN << Alert("scan", "case_e0_4", varName, ln, NoIdx) >>
                  ELSE << >>
           chk == checkValueRange(varName, Num(val1))
       IN IF chk.exc # ""
          THEN [exc |-> TRUE, val |-> None, alerts |-> pre, s |-> oldS]
          ELSE Done(chk.val,
                    pre \o (IF chk.msg
                            THEN << Alert("scan", "clamped", varName, ln,
                                          NoIdx) >>
                            ELSE << >>), oldS)

\* the body of the try statement, lines 289-332
TryBody(old, oldS, varName, elementIndex, data, ln) ==
  IF varName = "occurrence"
  THEN IF \A i \in 1..Len(data) : data[i] \in OccTokens
       THEN Done(List([i \in 1..Len(data) |->
                         List(<< Bool(data[i] \in OccFirst),
                                 Bool(data[i] \in OccSecond) >>)]),
                 << >>, oldS)
       ELSE RaisedWith(oldS)
  ELSE IF varName = "globaldensity"
  THEN IF Len(data) >= 2 /\ IsNum(data[2])
       THEN Done(List(<< Bool(data[1] = "True"),
                         Num(ParseFloat(data[2])) >>), << >>, oldS)
       ELSE RaisedWith(oldS)
  ELSE IF varName \in Range(listVars)
  THEN ListBranch(old, oldS, varName, elementIndex, data, ln)
  ELSE IF varName \in Range(boolVars)
  THEN Done(Bool(IsFortranTrue(data[1])), << >>, oldS)
  ELSE ScalarBranch(oldS, varName, data, ln)

\* UnknownVar with the test of line 274 always false
UnknownVar_Never(bare, known) == FALSE

\* unknownVar, lines 273-275
UnknownVar(bare, known) ==
  IF known = None THEN FALSE
  ELSE bare \notin (known.names \cup Range(customVars))

\* one iteration of the loop over the lines, lines 254-335; st holds the
\* locals v, alerts, additionalSettings and s, and exc tells whether the
\* iteration ended with an exception that leaves loadInputFile
ScanLine(st, line, ln, known) ==
  LET skip == [st EXCEPT !.exc = FALSE]
      bare == line.name
  IN IF ~line.eq \/ (~line.bang /\ line.idx = NoIdx /\ bare = "text")
     THEN skip
     ELSE IF ~line.bang /\ line.idx = NoIdx /\ bare = ""
     THEN [st EXCEPT !.exc = TRUE]              \* varName[0] of ''
     ELSE IF line.bang /\ (line.idx # NoIdx \/ bare \notin Range(customVars))
     THEN skip
     ELSE IF \E i \in 1..Len(ignoredVars) : StartsWith(bare, ignoredVars[i])
     THEN skip
     ELSE
       LET unknownVar == UnknownVar(bare, known)
           al1 == IF unknownVar
                  THEN Append(st.alerts,
                              Alert("scan", "unknownVar", bare, ln, NoIdx))
                  ELSE st.alerts
       IN IF unknownVar \/ bare \notin VarSet
          THEN [st EXCEPT !.exc = FALSE, !.alerts = al1,
                          !.additionalSettings = Append(@, line)]
          ELSE
            LET r == TryBody(st.v[bare], st.s, bare, line.idx, line.data, ln)
            IN IF r.exc
               THEN [exc |-> FALSE,
                     v |-> [st.v EXCEPT ![bare] = None],
                     alerts |-> Append(al1 \o r.alerts,
                                  Alert("scan", "failed", bare, ln, NoIdx)),
                     additionalSettings |-> st.additionalSettings,
                     s |-> r.s]
               ELSE [exc |-> FALSE,
                     v |-> [st.v EXCEPT ![bare] = r.val],
                     alerts |-> al1 \o r.alerts,
                     additionalSettings |-> st.additionalSettings,
                     s |-> r.s]

\* FillList with the number 0 in place of a default that is None
FillList_Zero(old, defaultVar, ncp) ==
  LET d == IF defaultVar = None THEN Num(0) ELSE defaultVar
  IN IF old = None
     THEN List([i \in 1..ncp |-> d])
     ELSE LET ext == Grow(old.l, ncp)
          IN List([i \in 1..Len(ext) |-> IF ext[i] = None THEN d ELSE ext[i]])

\* int(v[0]) copies of the default / the list extended to ncp entries with
\* its None entries replaced, lines 348-355
FillList(old, defaultVar, ncp) ==
  IF old = None
  THEN List([i \in 1..ncp |-> defaultVar])
  ELSE LET ext == Grow(old.l, ncp)
       IN List([i \in 1..Len(ext) |->
                  IF ext[i] = None THEN defaultVar ELSE ext[i]])

\* DefaultOne with the assignment of line 361 moved under the test of
\* line 357: a variable that is defaulted silently keeps None
DefaultOne_AlertedOnly(st, i) ==
  LET varName == varNames[i]
      old == st.v[varName]
  IN IF varName \notin DOMAIN defaultValues THEN st
     ELSE LET defaultVar == defaultValues[varName]
          IN IF varName \in Range(listVars)
             THEN [v |-> [st.v EXCEPT ![varName] =
                            FillList(old, defaultVar, st.v["ncp"].n)],
                   alerts |->
                     IF old = None /\ varName \notin sparseVars
                     THEN Append(st.alerts,
                            Alert("default", "missing", varName, 0, NoIdx))
                     ELSE st.alerts]
             ELSE IF /\ old = None
                     /\ varName \notin Range(boolVars \o customVars)
                     /\ \/ varName # "number_calc"
                        \/ st.v["case_e0"] = Num(5)
                        \/ st.v["case_alpha"] = Num(5)
             THEN [v |-> [st.v EXCEPT ![varName] = defaultVar],
                   alerts |-> Append(st.alerts,
                            Alert("default", "missing", varName, 0, NoIdx))]
             ELSE st

\* one iteration of the loop of lines 338-361, for varNames[i]
DefaultOne(st, i) ==
  LET varName == varNames[i]
      old == st.v[varName]
  IN IF varName \notin DOMAIN defaultValues THEN st
     ELSE LET defaultVar == defaultValues[varName]
          IN IF varName \in Range(listVars)
             THEN [v |-> [st.v EXCEPT ![varName] =
                            FillList(old, defaultVar, st.v["ncp"].n)],
                   alerts |->
                     IF old = None /\ varName \notin sparseVars
                     THEN Append(st.alerts,
                            Alert("default", "missing", varName, 0, NoIdx))
                     ELSE st.alerts]
             ELSE IF old = None
             THEN [v |-> [st.v EXCEPT ![varName] = defaultVar],
                   alerts |->
                     IF /\ varName \notin Range(boolVars \o customVars)
                        /\ \/ varName # "number_calc"
                           \/ st.v["case_e0"] = Num(5)
                           \/ st.v["case_alpha"] = Num(5)
                     THEN Append(st.alerts,
                            Alert("default", "missing", varName, 0, NoIdx))
                     ELSE st.alerts]
             ELSE st

RECURSIVE DefaultFrom(_, _)
\* for idx in range(len(v)): the loop of lines 338-361 from varNames[i] on
DefaultFrom(st, i) ==
  IF i > Cardinality(DOMAIN st.v) THEN st
  ELSE DefaultFrom(DefaultOne(st, i), i + 1)

\* if v[idx], for a Boolean variable or None
Truthy(val) == val = Bool(TRUE)

\* RepairOne with the sweep tests of lines 368-373 skipped for lmatrices
RepairOne_TrackingOnly(st, i) ==
  LET varName == boolVars[i]
  IN IF ~Truthy(st.v[varName]) THEN st
     ELSE LET st1 ==
                IF varName # "lmatrices" /\ st.v["case_e0"] = Num(5)
                THEN [v |-> [st.v EXCEPT ![varName] = Bool(FALSE)],
                      alerts |-> Append(st.alerts,
                        Alert("repair", "case_e0=5", varName, 0, NoIdx))]
                ELSE IF varName # "lmatrices" /\ st.v["case_alpha"] = Num(5)
                THEN [v |-> [st.v EXCEPT ![varName] = Bool(FALSE)],
                      alerts |-> Append(st.alerts,
                        Alert("repair", "case_alpha=5", varName, 0, NoIdx))]
                ELSE st
          IN IF varName = "lmatrices" /\ st1.v["idrel"] = Num(0)
             THEN [v |-> [st1.v EXCEPT ![varName] = Bool(FALSE)],
                   alerts |-> Append(st1.alerts,
                     Alert("repair", "idrel=0", varName, 0, NoIdx))]
             ELSE st1

\* one iteration of the loop of lines 364-376, for boolVars[i]
RepairOne(st, i) ==
  LET varName == boolVars[i]
  IN IF ~Truthy(st.v[varName]) THEN st
     ELSE LET st1 ==
                IF st.v["case_e0"] = Num(5)
                THEN [v |-> [st.v EXCEPT ![varName] = Bool(FALSE)],
                      alerts |-> Append(st.alerts,
                        Alert("repair", "case_e0=5", varName, 0, NoIdx))]
                ELSE IF st.v["case_alpha"] = Num(5)
                THEN [v |-> [st.v EXCEPT ![varName] = Bool(FALSE)],
                      alerts |-> Append(st.alerts,
                        Alert("repair", "case_alpha=5", varName, 0, NoIdx))]
                ELSE st
          IN IF varName = "lmatrices" /\ st1.v["idrel"] = Num(0)
             THEN [v |-> [st1.v EXCEPT ![varName] = Bool(FALSE)],
                   alerts |-> Append(st1.alerts,
                     Alert("repair", "idrel=0", varName, 0, NoIdx))]
             ELSE st1

RECURSIVE RepairFrom(_, _)
\* the loop of lines 364-376 from boolVars[i] on
RepairFrom(st, i) ==
  IF i > Len(boolVars) THEN st ELSE RepairFrom(RepairOne(st, i), i + 1)

\* InputSettings.varNames.index('ipot') > 3, line 378
IpotTest(vv) == IndexOf("ipot") - 1 > 3

\* lines 377-380
RepairIntegral(st) ==
  IF st.v["iintegral"] = Num(0) /\ IpotTest(st.v)
  THEN [v |-> [st.v EXCEPT !["iintegral"] = Num(2)],
        alerts |-> Append(st.alerts,
          Alert("repair", "iintegral=0", "iintegral", 0, NoIdx))]
  ELSE st

\* CrossFieldRepairs with the iintegral check placed before the loop
CrossFieldRepairs_IntegralFirst(st) == RepairFrom(RepairIntegral(st), 1)

\* the checks for invalid combinations in the order of the code, lines 363-380
CrossFieldRepairs(st) == RepairIntegral(RepairFrom(st, 1))

\* ---------------------------------------------------------------- files
\* the names the documentation tri.inp.txt lists (MainWindow.py 434-451):
\* the engine's variables, and qu_int added by hand
DocNames ==
  (VarSet \ Range(customVars)) \cup { "qu_int", "ioutput_part", "tableinp" }

\* the names of a documentation that does not list ipot
OlderDocNames == DocNames \ { "ipot" }

\* the lines a free-form file is made of
LineSet ==
  { Line("", << "1" >>),
    Line("ncp", << "3" >>), Line("ncp", << "x" >>),
    Line("symbol", << Quote("H"), Quote("XX") >>),
    Line("symbol", << Quote("XX"), Quote("He"), "W" >>),
    IdxLine("symbol", 2, << Quote("XX") >>),
    IdxLine("symbol", 1, << Quote("W") >>),
    Line("inel0", << "0", "3" >>), Line("inel0", << "2", "6" >>),
    IdxLine("inel0", 2, << "4" >>),
    Line("case_e0", << "5" >>), Line("case_e0", << "4" >>),
    Line("case_e0", << "7" >>), Line("case_alpha", << "5" >>),
    Line("ipot", << "2" >>), Line("iintegral", << "0" >>),
    Line("isbv", << "-1" >>),
    Line("idrel", << "0" >>),
    Line("lparticle_p", << ".true." >>), Line("lparticle_r", << ".TRUE." >>),
    Line("lmatrices", << ".true." >>), Line("lparticle_p", << "yes" >>),
    Line("foo", << "1" >>), IdxLine("ioutput_part", 2, << "5" >>),
    Line("tableinp", << "\"/opt/SDTrimSP/tables\"" >>),
    Line("tableinp_dir", << "" >>),
    Line("qu_int", << "1" >>),
    BangLine("occurrence", << "10", "01" >>),
    Line("text", << "'---beam---'" >>), RawLine("/"),
    IdxLine("dns0", 2, << "5" >>), IdxLine("dns0", 0, << "7" >>),
    Line("qu", << "1", "x" >>),
    Line("nh", << "abc" >>) }

\* ---------------------------------------------------------------- actions
NoGui == [t |-> "None"]

\* nothing has been checked, written to or read from the layer file
NoOutputs ==
  /\ errors = << >>
  /\ layersFile = None
  /\ targetLayers = None

\* the locals of loadInputFile at its start, lines 249-253
InitLoad ==
  /\ lineNr = 0
  /\ v = [n \in VarSet |-> None]
  /\ alerts = << >>
  /\ additionalSettings = << >>
  /\ s = Unbound

\* loadInputFile is called on some file; its lines are drawn as it reads
Init ==
  /\ allVarNames \in { None, [names |-> DocNames], [names |-> OlderDocNames] }
  /\ gui = NoGui
  /\ settings = None
  /\ file = << >>
  /\ InitLoad
  /\ NoOutputs
  /\ pc = "scan"

\* the loop body applied to one line
Consume(line) ==
  LET st == [exc |-> FALSE, v |-> v, alerts |-> alerts,
             additionalSettings |-> additionalSettings, s |-> s]
      r == ScanLine(st, line, lineNr + 2, allVarNames)
  IN /\ lineNr' = lineNr + 1
     /\ v' = r.v
     /\ alerts' = r.alerts
     /\ additionalSettings' = r.additionalSettings
     /\ s' = r.s
     /\ pc' = IF r.exc THEN "raised" ELSE "scan"

\* loadInputFile reads the next line of a free-form file
ReadLine ==
  /\ pc = "scan"
  /\ gui = NoGui
  /\ lineNr = Len(file)
  /\ Len(file) < MaxLines
  /\ \E line \in LineSet :
       /\ file' = Append(file, line)
       /\ Consume(line)
  /\ UNCHANGED << errors, layersFile, targetLayers, allVarNames, gui, settings >>

\* the file ends: the defaulting pass, lines 337-361
DefaultingPass ==
  /\ pc = "scan"
  /\ lineNr = Len(file)
  /\ LET r == DefaultFrom([v |-> v, alerts |-> alerts], 1)
     IN /\ v' = r.v
        /\ alerts' = r.alerts
  /\ pc' = "defaulted"
  /\ UNCHANGED << errors, layersFile, targetLayers, allVarNames, gui, settings, file, lineNr,
                  additionalSettings, s >>

\* the cross-field repairs and the return, lines 363-384
RepairPass ==
  /\ pc = "defaulted"
  /\ LET r == CrossFieldRepairs([v |-> v, alerts |-> alerts])
     IN /\ v' = r.v
        /\ alerts' = r.alerts
  /\ pc' = "done"
  /\ UNCHANGED << errors, layersFile, targetLayers, allVarNames, gui, settings, file, lineNr,
                  additionalSettings, s >>

Next == ReadLine \/ DefaultingPass \/ RepairPass

Spec == Init /\ [][Next]_vars

\* ---------------------------------------------------------------- encoder
CompEntry(element, maxConcentration, atomicDensity, surfBindEnergy, displEnergy, inelLossModel) ==
  [element |-> element, maxConcentration |-> maxConcentration,
   atomicDensity |-> atomicDensity, surfBindEnergy |-> surfBindEnergy,
   displEnergy |-> displEnergy, inelLossModel |-> inelLossModel,
   abundance |-> 0, kinEnergy |-> 0, angle |-> 0]

BeamCompEntry(element, abundance, kinEnergy, angle, maxConcentration, atomicDensity, surfBindEnergy, displEnergy, inelLossModel) ==
  [element |-> element, maxConcentration |-> maxConcentration,
   atomicDensity |-> atomicDensity, surfBindEnergy |-> surfBindEnergy,
   displEnergy |-> displEnergy, inelLossModel |-> inelLossModel,
   abundance |-> abundance, kinEnergy |-> kinEnergy, angle |-> angle]

TargetLayerEntry(segmentCount, segmentThickness, abundances, layerName) ==
  [segmentCount |-> segmentCount, segmentThickness |-> segmentThickness,
   abundances |-> abundances, layerName |-> layerName]

\* the loops of lines 83-92: position of the first entry with the symbol,
\* 0 if there is none
FirstIdx(comp, symbol) ==
  IF \E i \in 1..Len(comp) : comp[i].element.symbol = symbol
  THEN CHOOSE i \in 1..Len(comp) :
         /\ comp[i].element.symbol = symbol
         /\ \A j \in 1..(i - 1) : comp[j].element.symbol # symbol
  ELSE 0

\* for an element in the beam the beam entry gives inel0 and qumax
InelSource(inBeam, bc, tc) == IF inBeam THEN bc ELSE tc

\* AnyCustom over the entries of the beam table only
AnyCustom_BeamOnly(g, field, column) ==
  ~ \A i \in 1..Len(g.beamComp) :
      g.beamComp[i].element[field] = g.beamComp[i][column]

\* not all([entry.element.<field> == entry.<column> for entry in
\* beamComp+targetComp]), lines 72-74
AnyCustom(g, field, column) ==
  LET both == g.beamComp \o g.targetComp
  IN ~ \A i \in 1..Len(both) : both[i].element[field] = both[i][column]

\* setVars(...) as called by extractVariables, lines 72-131
extractVariables(g) ==
  LET customDensities == AnyCustom(g, "atomic_density", "atomicDensity")
      customSurfBindEnergies ==
        AnyCustom(g, "surface_binding_energy", "surfBindEnergy")
      customDisplEnergies ==
        AnyCustom(g, "displacement_energy", "displEnergy")
      n == Len(g.symbols)
      beamIdx(k) == FirstIdx(g.beamComp, g.symbols[k])
      targetIdx(k) == FirstIdx(g.targetComp, g.symbols[k])
      inBeam(k) == beamIdx(k) >= 1
      inTarget(k) == targetIdx(k) >= 1
      bc(k) == g.beamComp[beamIdx(k)]
      tc(k) == g.targetComp[targetIdx(k)]
      flag(b) == IF b THEN "1" ELSE "0"
      PerElement(f(_)) == List([k \in 1..n |-> f(k)])
      occ(k) == Str(flag(inBeam(k)) \o flag(inTarget(k)))
      inel(k) == Num(InelSource(inBeam(k), bc(k), tc(k)).inelLossModel + 1)
      qub(k) == Num(IF inBeam(k) THEN bc(k).abundance ELSE 0)
      e0k(k) == Num(IF inBeam(k) THEN bc(k).kinEnergy ELSE 0)
      al0(k) == Num(IF inBeam(k) THEN bc(k).angle ELSE 0)
      qmx(k) == Num(InelSource(inBeam(k), bc(k), tc(k)).maxConcentration)
      quk(k) == Num(IF inTarget(k)
                    THEN g.targetLayers[1].abundances[targetIdx(k)] ELSE 0)
      dns(k) == Num(IF inTarget(k) THEN tc(k).atomicDensity
                    ELSE bc(k).atomicDensity)
      esb(k) == Num(IF inTarget(k) THEN tc(k).surfBindEnergy
                    ELSE bc(k).surfBindEnergy)
      edi(k) == Num(IF inTarget(k) THEN tc(k).displEnergy
                    ELSE bc(k).displEnergy)
      sym(k) == Str(g.symbols[k])
  IN [ title |-> g.title,
       vars |->
         [ ncp |-> Num(n),
           symbol |-> PerElement(sym),
           dns0 |-> IF customDensities THEN PerElement(dns) ELSE List(<< >>),
           e_surfb |-> IF customSurfBindEnergies THEN PerElement(esb)
                       ELSE List(<< >>),
           e_displ |-> IF customDisplEnergies THEN PerElement(edi)
                       ELSE List(<< >>),
           occurrence |-> PerElement(occ),
           globaldensity |-> List(<< Bool(g.enableGlobalDensity),
                                     Num(g.globalDensity) >>),
           inel0 |-> PerElement(inel),
           nh |-> Num(g.historiesPerUpdate),
           idout |-> Num(g.historiesBetweenOutputs),
           nr_pproj |-> Num(g.projectilesPerHistory),
           flc |-> Num(g.fluence),
           idrel |-> Num(g.calcMethod),
           ipot |-> Num(g.interactPot),
           iintegral |-> Num(g.integrationMethod),
           isbv |-> Num(g.surfaceBindingModel),
           qubeam |-> PerElement(qub),
           case_e0 |-> Num(g.kinEnergyType),
           e0 |-> PerElement(e0k),
           case_alpha |-> Num(g.angleType),
           alpha0 |-> PerElement(al0),
           number_calc |-> Num(g.number_calc),
           qu |-> PerElement(quk),
           qumax |-> PerElement(qmx),
           ttarget |-> Num(g.targetThickness),
           nqx |-> Num(g.targetSegmentsCount),
           iq0 |-> Num(IF Len(g.targetLayers) > 1 THEN -1 ELSE 0),
           lparticle_p |-> Bool(g.outputReflected),
           lparticle_r |-> Bool(g.outputSputtered),
           lmatrices |-> Bool(g.outputMatrices) ],
       additionalSettings |-> g.additionalSettings,
       allAbundances |->
         [i \in 1..Len(g.targetLayers) |->
            [k \in 1..n |->
               IF inTarget(k)
               THEN g.targetLayers[i].abundances[targetIdx(k)] ELSE 0]],
       targetLayers |-> g.targetLayers ]

\* ---------------------------------------------------------------- settings check
\* A line of the additional-settings box by its characters: the chunks of
\* the text before the first '=' (name pieces, "(" and ")"), the number of
\* '=' in the line, and the stripped text between the first and second '='.
SettingText(lhs, eqs, rhs) == [lhs |-> lhs, eqs |-> eqs, rhs |-> rhs]

\* a.split('=')[0].strip(), in chunks
Lhs(a) ==
  IF "lhs" \in DOMAIN a THEN a.lhs
  ELSE << (IF a.bang THEN "!" ELSE "") \o a.name >>
       \o (IF a.idx # NoIdx THEN << "(", ToStr(a.idx), ")" >> ELSE << >>)

\* a.count('=')
EqCount(a) ==
  IF "lhs" \in DOMAIN a THEN a.eqs ELSE IF a.eq THEN 1 ELSE 0

\* len(a.split('=')[1].strip()) == 0
RhsEmpty(a) ==
  IF "lhs" \in DOMAIN a THEN a.rhs = "" ELSE a.data \in { << >>, << "" >> }

\* var.count(ch)
CountOf(lhs, ch) == Cardinality({ i \in 1..Len(lhs) : lhs[i] = ch })

RECURSIVE BeforeParen(_)
\* var.split('(')[0].strip()
BeforeParen(lhs) ==
  IF lhs = << >> THEN ""
  ELSE IF Head(lhs) = "(" THEN ""
  ELSE Head(lhs) \o BeforeParen(Tail(lhs))

\* an entry of errors: the enumerate index of the line and the message kind
Finding(i, kind) == [line |-> i, kind |-> kind]

\* the body of the loop of lines 135-148 for line a with enumerate index i
ErrorsOfLine(a, i, known) ==
  LET lhs == Lhs(a)
      var == BeforeParen(lhs)
  IN (IF EqCount(a) # 1 THEN << Finding(i, "equals") >>
      ELSE IF RhsEmpty(a) THEN << Finding(i, "value") >>
      ELSE << >>)
     \o (IF CountOf(lhs, "(") # CountOf(lhs, ")")
         THEN << Finding(i, "parentheses") >> ELSE << >>)
     \o (IF known # None /\ var \notin known.names
         THEN << Finding(i, "unknown") >> ELSE << >>)

RECURSIVE ErrorsFrom(_, _, _)
\* the loop of lines 135-148 from the line with enumerate index i on
ErrorsFrom(lines, i, known) ==
  IF i >= Len(lines) THEN << >>
  ELSE ErrorsOfLine(lines[i + 1], i, known) \o ErrorsFrom(lines, i + 1, known)

\* checkForAdditionalSettingErrors, lines 133-149
checkForAdditionalSettingErrors(m, known) ==
  ErrorsFrom(m.additionalSettings, 0, known)

\* ---------------------------------------------------------------- writer
\* getHeader(title), as a line
getHeader(title) == Line("text", << "'---" \o title \o "---'" >>)

\* str(x) of one value
PyStr(x) ==
  CASE x.t = "num" -> ToStr(x.n)
    [] x.t = "bool" -> (IF x.b THEN "True" ELSE "False")
    [] x.t = "str" -> x.s

\* the lines one variable contributes, lines 178-207
WriteVar(m, n) ==
  LET val == m.vars[n]
      header == IF n \in DOMAIN blockStarts
                THEN << RawLine(""), getHeader(blockStarts[n]) >>
                ELSE << >>
      nhv == m.vars["nh"].n
      npp == m.vars["nr_pproj"].n
      companion ==
        IF n = "lparticle_p" /\ val.b
        THEN << IdxLine("ioutput_part", 2, << ToStr(nhv * npp) >>) >>
        ELSE IF n = "lparticle_r" /\ val.b
        THEN << IdxLine("ioutput_part", 5, << ToStr(100 * nhv * npp) >>) >>
        ELSE << >>
      isList == n \in Range(listVars) \/ n \in Range(customVars)
      tokens ==
        IF n \in Range(boolVars)
        THEN << IF val.b THEN ".true." ELSE ".false." >>
        ELSE IF n = "symbol"
        THEN [i \in 1..Len(val.l) |-> Quote(val.l[i].s)]
        ELSE IF isList
        THEN (IF Len(val.l) = 0 THEN << "" >>
              ELSE [i \in 1..Len(val.l) |-> PyStr(val.l[i])])
        ELSE << PyStr(val) >>
      skipNumberCalc ==
        /\ n = "number_calc"
        /\ m.vars["case_e0"] # Num(5)
        /\ m.vars["case_alpha"] # Num(5)
  IN IF n \in sparseVars /\ Len(val.l) = 0 THEN << >>
     ELSE header \o
          (IF n \in Range(boolVars) THEN companion ELSE << >>) \o
          (IF skipNumberCalc THEN << >>
           ELSE IF n \in Range(customVars) THEN << BangLine(n, tokens) >>
           ELSE << Line(n, tokens) >>)

RECURSIVE WriteVarsFrom(_, _)
\* the loop of lines 177-207 from varNames[i] on
WriteVarsFrom(m, i) ==
  IF i > Len(varNames) THEN << >>
  ELSE WriteVar(m, varNames[i]) \o WriteVarsFrom(m, i + 1)

\* getWriteInputFileString with the additional settings appended after the
\* terminating '/' line
getWriteInputFileString_ExtraAfterEnd(m) ==
  << RawLine("&TRI_INP"), getHeader("elements") >>
  \o WriteVarsFrom(m, 1)
  \o << RawLine(""), RawLine("/") >>
  \o (IF Len(m.additionalSettings) > 0
      THEN << RawLine(""), getHeader("extra") >> \o m.additionalSettings
      ELSE << >>)

\* the lines of getWriteInputFileString() after the title line, as
\* writeToFile puts them into the file
getWriteInputFileString(m) ==
  << RawLine("&TRI_INP"), getHeader("elements") >>
  \o WriteVarsFrom(m, 1)
  \o (IF Len(m.additionalSettings) > 0
      THEN << RawLine(""), getHeader("extra") >> \o m.additionalSettings
      ELSE << >>)
  \o << RawLine(""), RawLine("/") >>

\* ---------------------------------------------------------------- layer file
\* In the layer tables a thickness or an abundance counts thousandths; a
\* two-decimal token of the layer file denotes a number of hundredths.
\* A line of the layer file is the sequence of its blank-separated words.

\* the text of h hundredths with two decimals
TwoDecimals(h) ==
  ToStr(h \div 100) \o "." \o Digit[(h \div 10) % 10] \o Digit[h % 10]

\* f'{x:.2f}' for x thousandths, x not half-way between two hundredths
Fmt2(x) == TwoDecimals((x + 5) \div 10)

\* float(tok) of a two-decimal token, in hundredths
IsCenti(tok) == \E h \in 0..MaxCenti : TwoDecimals(h) = tok
ParseCenti(tok) == CHOOSE h \in 0..MaxCenti : TwoDecimals(h) = tok

\* the number 1 of line 394, in hundredths
Whole == 100

\* the words of a layer name (the name validator admits no blank)
Words(name) == IF name = "" THEN << >> ELSE << name >>

RECURSIVE JoinWords(_)
\* ' '.join(words)
JoinWords(words) ==
  IF words = << >> THEN ""
  ELSE IF Len(words) = 1 THEN words[1]
  ELSE words[1] \o " " \o JoinWords(Tail(words))

RECURSIVE SumSeq(_)
\* sum(allAbundances)
SumSeq(q) == IF q = << >> THEN 0 ELSE Head(q) + SumSeq(Tail(q))

\* getWriteLayersFileString with the abundances of all ncp elements written
getWriteLayersFileString_AllColumns(m) ==
  LET ncp == m.vars["ncp"].n
      row(i) ==
        << ToStr(m.targetLayers[i].segmentCount),
           Fmt2(m.targetLayers[i].segmentThickness) >>
        \o [j \in 1..ncp |-> Fmt2(m.allAbundances[i][j])]
        \o Words(m.targetLayers[i].layerName)
  IN << << "number", "of", "thick-", "target", "composition", "2...ncp",
           "name", "of", "layer" >>,
        << "layers", "ness" >> \o [i \in 1..(ncp - 1) |-> "qu_" \o ToStr(i + 1)] >>
     \o [i \in 1..Len(m.targetLayers) |-> row(i)]
     \o << << "0", Fmt2(0) >> \o [j \in 1..(ncp - 1) |-> Fmt2(0)]
           \o << "end" >> >>

\* getWriteLayersFileString, lines 216-234, as writeToFile puts it into the
\* file
getWriteLayersFileString(m) ==
  LET ncp == m.vars["ncp"].n
      row(i) ==
        << ToStr(m.targetLayers[i].segmentCount),
           Fmt2(m.targetLayers[i].segmentThickness) >>
        \o [j \in 1..(ncp - 1) |-> Fmt2(m.allAbundances[i][j + 1])]
        \o Words(m.targetLayers[i].layerName)
  IN << << "number", "of", "thick-", "target", "composition", "2...ncp",
           "name", "of", "layer" >>,
        << "layers", "ness" >> \o [i \in 1..(ncp - 1) |-> "qu_" \o ToStr(i + 1)] >>
     \o [i \in 1..Len(m.targetLayers) |-> row(i)]
     \o << << "0", Fmt2(0) >> \o [j \in 1..(ncp - 1) |-> Fmt2(0)]
           \o << "end" >> >>

\* loadLayersFile with the computed abundance appended instead of inserted
\* at position 0
loadLayersFile_RemainderLast(f) ==
  LET ncp_sub1 == Len(f[2]) - 2
      splitLines == SubSeq(f, 3, Len(f) - 1)
      parses(l) ==
        /\ Len(l) >= 2 + ncp_sub1
        /\ IsNum(l[1])
        /\ \A j \in 2..(2 + ncp_sub1) : IsCenti(l[j])
      entry(l) ==
        LET stored == [j \in 1..ncp_sub1 |-> ParseCenti(l[2 + j])]
        IN TargetLayerEntry(ParseFloat(l[1]), ParseCenti(l[2]),
                            stored \o << Whole - SumSeq(stored) >>,
                            JoinWords(SubSeq(l, 3 + ncp_sub1, Len(l))))
  IN IF \A i \in 1..Len(splitLines) : parses(splitLines[i])
     THEN List([i \in 1..Len(splitLines) |-> entry(splitLines[i])])
     ELSE None

\* loadLayersFile, lines 386-398: the list of entries, None if a conversion
\* raises
loadLayersFile(f) ==
  LET ncp_sub1 == Len(f[2]) - 2
      splitLines == SubSeq(f, 3, Len(f) - 1)
      parses(l) ==
        /\ Len(l) >= 2 + ncp_sub1
        /\ IsNum(l[1])
        /\ \A j \in 2..(2 + ncp_sub1) : IsCenti(l[j])
      entry(l) ==
        LET stored == [j \in 1..ncp_sub1 |-> ParseCenti(l[2 + j])]
        IN TargetLayerEntry(ParseFloat(l[1]), ParseCenti(l[2]),
                            << Whole - SumSeq(stored) >> \o stored,
                            JoinWords(SubSeq(l, 3 + ncp_sub1, Len(l))))
  IN IF \A i \in 1..Len(splitLines) : parses(splitLines[i])
     THEN List([i \in 1..Len(splitLines) |-> entry(splitLines[i])])
     ELSE None

\* ---------------------------------------------------------------- consumer
\* MainWindow.loadFiles, lines 1168-1179: the number shown for element i of
\* an optional array, dflt being the element's value in the database
Consumed(raw, i, dflt) ==
  IF raw = None THEN dflt
  ELSE IF raw.l[i] = None THEN dflt ELSE raw.l[i].n

\* ---------------------------------------------------------------- GUI state
\* MainWindow.createSettingsObject: the forced tableinp line, then the text
\* of the additional-settings box
TableInpLine == Line("tableinp", << "\"/opt/SDTrimSP/tables\"" >>)

Dflt(sym) == elements[sym]

\* beam and target compositions with their layers, and the text of the
\* additional-settings box
Compositions ==
  LET beamH(d) == BeamCompEntry(Dflt("H"), 1, 5, 0, 1, d, 1, 5, 2)
      beamW == BeamCompEntry(Dflt("W"), 0, 3, 0, 2, 6, 8, 9, 0)
      targW(e) == CompEntry(Dflt("W"), 1, 6, e, 9, 3)
      targHe == CompEntry(Dflt("He"), 1, 2, 0, 3, 2)
      oneLayer == << TargetLayerEntry(10, 2, << 1 >>, "Layer1") >>
  IN { [symbols |-> << "H", "W" >>, beamComp |-> << beamH(d) >>,
        targetComp |-> << targW(8) >>, targetLayers |-> oneLayer,
        extra |-> << >>] : d \in { 4, 7 } }
     \cup
     { [symbols |-> << "H", "W" >>, beamComp |-> << beamH(4), beamW >>,
        targetComp |-> << targW(3) >>, targetLayers |-> oneLayer,
        extra |-> << Line("qu_int", << "1" >>) >>],
       [symbols |-> << "W", "H", "He" >>, beamComp |-> << beamH(4) >>,
        targetComp |-> << targW(8), targHe >>,
        targetLayers |-> << TargetLayerEntry(5, 2, << 1, 0 >>, "Layer1"),
                            TargetLayerEntry(3, 1, << 0, 1 >>, "Layer2") >>,
        extra |-> << Line("isbv", << "9" >>), Line("foo", << "1" >>),
                     Line("e0", << "x" >>) >>] }

\* kinEnergyType and angleType: no sweep, energy sweep, angle sweep
BeamTypes == { << 0, 0 >>, << 5, 0 >>, << 0, 5 >> }

\* outputReflected, outputSputtered, outputMatrices
OutputFlags ==
  { << FALSE, FALSE, FALSE >>, << TRUE, TRUE, FALSE >>,
    << FALSE, FALSE, TRUE >>, << TRUE, TRUE, TRUE >> }

\* the widgets read by createSettingsObject, lines 1053-1075
GuiStates ==
  { [ symbols |-> c.symbols, beamComp |-> c.beamComp,
      targetComp |-> c.targetComp, targetLayers |-> c.targetLayers,
      title |-> "title", historiesPerUpdate |-> 7,
      historiesBetweenOutputs |-> -1, projectilesPerHistory |-> 2,
      fluence |-> 1, calcMethod |-> cm, interactPot |-> ip,
      integrationMethod |-> im, surfaceBindingModel |-> 1,
      kinEnergyType |-> bt[1], angleType |-> bt[2], number_calc |-> nc,
      targetThickness |-> 10, targetSegmentsCount |-> 10,
      enableGlobalDensity |-> FALSE, globalDensity |-> 0,
      outputReflected |-> b[1], outputSputtered |-> b[2],
      outputMatrices |-> b[3],
      additionalSettings |-> << TableInpLine >> \o c.extra ]
    : c \in Compositions, cm \in { 0, 1 }, ip \in { 1, 4 }, im \in { 0, 2 },
      bt \in BeamTypes, nc \in { 18, 19 }, b \in OutputFlags }

\* the constraints the widget handlers of ui_main.py keep (lines 669-706)
GuiConsistent(g) ==
  /\ g.kinEnergyType # 4
  /\ (g.kinEnergyType = 5 \/ g.angleType = 5) =>
       (~g.outputReflected /\ ~g.outputSputtered /\ ~g.outputMatrices)
  /\ g.kinEnergyType = 5 => g.angleType = 0
  /\ g.angleType = 5 => g.kinEnergyType = 0
  /\ g.calcMethod = 0 => ~g.outputMatrices
  /\ g.interactPot > 3 => g.integrationMethod # 0

\* ---------------------------------------------------------------- save, load
\* a GUI state is saved and loaded again
InitRT ==
  /\ allVarNames \in { None, [names |-> DocNames] }
  /\ gui \in GuiStates
  /\ settings = None
  /\ file = << >>
  /\ InitLoad
  /\ NoOutputs
  /\ pc = "gui"

\* createSettingsObject: settings.extractVariables(...) and then
\* settings.checkForAdditionalSettingErrors()
ExtractVariables ==
  /\ pc = "gui"
  /\ settings' = extractVariables(gui)
  /\ errors' = checkForAdditionalSettingErrors(extractVariables(gui),
                                                allVarNames)
  /\ pc' = "extracted"
  /\ UNCHANGED << layersFile, targetLayers, allVarNames, gui, file, lineNr, v, alerts,
                  additionalSettings, s >>

\* s.writeToFile(folder + '/tri.inp', InputSettings.FileType.INPUT); the
\* file is then opened by loadInputFile
WriteToFile ==
  /\ pc = "extracted"
  /\ file' = getWriteInputFileString(settings)
  /\ pc' = "scan"
  /\ UNCHANGED << errors, layersFile, targetLayers, allVarNames, gui, settings, lineNr, v, alerts,
                  additionalSettings, s >>

\* loadInputFile reads the next line of the written file
LoadLine ==
  /\ pc = "scan"
  /\ gui # NoGui
  /\ lineNr < Len(file)
  /\ Consume(file[lineNr + 1])
  /\ UNCHANGED << errors, layersFile, targetLayers, allVarNames, gui, settings, file >>

NextRT ==
  ExtractVariables \/ WriteToFile \/ LoadLine \/ DefaultingPass \/ RepairPass

SpecRT == InitRT /\ [][NextRT]_vars

\* ---------------------------------------------------------------- cycles
\* GUI states that are saved and loaded again and again: every composition
\* and every choice of outputs, the other widgets at one valid setting
CycleGuiStates ==
  { g \in GuiStates :
      /\ g.calcMethod = 1 /\ g.interactPot = 1 /\ g.integrationMethod = 2
      /\ g.kinEnergyType = 0 /\ g.angleType = 0 /\ g.number_calc = 19 }

InitCycle ==
  /\ allVarNames \in { None, [names |-> DocNames], [names |-> OlderDocNames] }
  /\ gui \in CycleGuiStates
  /\ settings = None
  /\ file = << >>
  /\ InitLoad
  /\ NoOutputs
  /\ pc = "gui"

\* MainWindow.loadFiles, line 1164: the decoded additional settings become
\* the text of the box, from which createSettingsObject builds the list of
\* the next save (lines 1055-1059).  The other widgets keep their values:
\* which lines loadInputFile keeps depends on the names of the lines only.
CopyBack ==
  /\ pc = "done"
  /\ gui # NoGui
  /\ Len(additionalSettings) <= MaxKept
  /\ gui' = [gui EXCEPT !.additionalSettings =
                          << TableInpLine >> \o additionalSettings]
  /\ settings' = None
  /\ file' = << >>
  /\ lineNr' = 0
  /\ v' = [n \in VarSet |-> None]
  /\ alerts' = << >>
  /\ additionalSettings' = << >>
  /\ s' = Unbound
  /\ errors' = << >>
  /\ pc' = "gui"
  /\ UNCHANGED << layersFile, targetLayers, allVarNames >>

NextCycle ==
  \/ ExtractVariables \/ WriteToFile \/ LoadLine \/ DefaultingPass
  \/ RepairPass \/ CopyBack

SpecCycle == InitCycle /\ [][NextCycle]_vars

\* ---------------------------------------------------------------- save
\* the lines typed into the additional-settings box
SettingTexts ==
  { SettingText(<< "foo" >>, 1, "1"),
    SettingText(<< "qu_int" >>, 1, "1"),
    SettingText(<< "qu_int" >>, 1, ""),
    SettingText(<< "qu_int" >>, 0, ""),
    SettingText(<< "qu_int" >>, 2, "1"),
    SettingText(<< "qu_int", "(", "2", ")" >>, 1, "1"),
    SettingText(<< "qu_int", "(", "2" >>, 1, "1"),
    SettingText(<< "qu_int", ")", "(" >>, 1, "1"),
    SettingText(<< "" >>, 0, "") }

RECURSIVE SeqsUpTo(_, _)
\* the sequences over S of length at most n
SeqsUpTo(S, n) ==
  IF n = 0 THEN { << >> }
  ELSE LET shorter == SeqsUpTo(S, n - 1)
       IN shorter \cup { Append(q, x) : q \in shorter, x \in S }

\* additionalSettings as createSettingsObject builds it (lines 1055-1059),
\* and the empty list that setVars has as its default
SettingLists ==
  { << >> } \cup { << TableInpLine >> \o q : q \in SeqsUpTo(SettingTexts, MaxExtra) }

\* compositions whose layer tables hold fractions, in thousandths
LayerCompositions ==
  LET beamH == BeamCompEntry(Dflt("H"), 1000, 5, 0, 1000, 4, 1, 5, 2)
      beamHe == BeamCompEntry(Dflt("He"), 1000, 5, 0, 1000, 2, 0, 3, 2)
      targW == CompEntry(Dflt("W"), 1000, 6, 8, 9, 3)
      targHe == CompEntry(Dflt("He"), 1000, 2, 0, 3, 2)
  IN { [symbols |-> << "H", "W" >>, beamComp |-> << beamH >>,
        targetComp |-> << targW >>,
        targetLayers |->
          << TargetLayerEntry(10, 2000, << 1000 >>, "Layer1") >>],
       [symbols |-> << "He", "W" >>, beamComp |-> << beamHe >>,
        targetComp |-> << targHe, targW >>,
        targetLayers |->
          << TargetLayerEntry(5, 2000, << 300, 700 >>, "Layer1"),
             TargetLayerEntry(3, 1333, << 667, 333 >>, "end") >>],
       [symbols |-> << "H", "He", "W" >>, beamComp |-> << beamH >>,
        targetComp |-> << targHe, targW >>,
        targetLayers |->
          << TargetLayerEntry(2, 1000, << 1000, 0 >>, ""),
             TargetLayerEntry(1, 2500, << 333, 667 >>, "Layer2"),
             TargetLayerEntry(4, 500, << 0, 1000 >>, "bulk") >>] }

\* the arguments of extractVariables for these compositions
WriteGuiStates ==
  { [ symbols |-> c.symbols, beamComp |-> c.beamComp,
      targetComp |-> c.targetComp, targetLayers |-> c.targetLayers,
      title |-> "title", historiesPerUpdate |-> 7,
      historiesBetweenOutputs |-> -1, projectilesPerHistory |-> 2,
      fluence |-> 1, calcMethod |-> 1, interactPot |-> 1,
      integrationMethod |-> 2, surfaceBindingModel |-> 1,
      kinEnergyType |-> 0, angleType |-> 0, number_calc |-> 19,
      targetThickness |-> 10, targetSegmentsCount |-> 10,
      enableGlobalDensity |-> FALSE, globalDensity |-> 0,
      outputReflected |-> b, outputSputtered |-> b,
      outputMatrices |-> FALSE,
      additionalSettings |-> a ]
    : c \in LayerCompositions, a \in SettingLists, b \in BOOLEAN }

InitW ==
  /\ allVarNames \in { None, [names |-> DocNames] }
  /\ gui \in WriteGuiStates
  /\ settings = None
  /\ file = << >>
  /\ InitLoad
  /\ NoOutputs
  /\ pc = "gui"

\* s.writeToFile(layerFileName, InputSettings.FileType.LAYERS)
WriteLayersFile ==
  /\ pc = "scan"
  /\ lineNr = 0
  /\ layersFile = None
  /\ layersFile' = getWriteLayersFileString(settings)
  /\ pc' = "layers"
  /\ UNCHANGED << errors, targetLayers, allVarNames, gui, settings, file,
                  lineNr, v, alerts, additionalSettings, s >>

\* targetLayers = loadLayersFile(layersFilePath)
LoadLayersFile ==
  /\ pc = "layers"
  /\ targetLayers' = loadLayersFile(layersFile)
  /\ pc' = "loaded"
  /\ UNCHANGED << errors, layersFile, allVarNames, gui, settings, file,
                  lineNr, v, alerts, additionalSettings, s >>

NextW ==
  ExtractVariables \/ WriteToFile \/ WriteLayersFile \/ LoadLayersFile

SpecWrite == InitW /\ [][NextW]_vars

\* ---------------------------------------------------------------- properties
\* the value holds something: it is not None and, if a list, has no None slot
Resolved(val) ==
  /\ val # None
  /\ val.t = "list" => \A i \in 1..Len(val.l) : val.l[i] # None

\* positions of the alerts raised while scanning the line with number ln
AlertsOfLine(ln) ==
  { k \in 1..Len(alerts) : alerts[k].phase = "scan" /\ alerts[k].line = ln }

\* the line is an assignment that reaches the try statement for a
\* registered variable
Registered(line) ==
  /\ line.eq
  /\ line.name \in VarSet
  /\ ~line.bang \/ (line.idx = NoIdx /\ line.name \in Range(customVars))
  /\ allVarNames # None =>
       line.name \in allVarNames.names \cup Range(customVars)

\* C2: loadInputFile never raises for content reasons: whatever the lines
\* of the file are, it returns a (model, alerts) pair.
C2_NeverRaises == pc # "raised"

\* C3: after loadInputFile returns, every variable of varNames holds a
\* resolved value: no variable is None and no list slot is None.
C3_AllResolved == pc = "done" => \A n \in VarSet : Resolved(v[n])

\* the variables without a value to default to: occurrence has no entry in
\* defaultValues, the optional arrays have the default None
Undefaulted == { "occurrence" } \cup sparseVars

\* C3 (amended): after loadInputFile returns, every variable of varNames
\* other than occurrence, dns0, e_surfb and e_displ holds a resolved value:
\* it is not None and none of its list slots is None.
C3_DefaultingTotality ==
  pc = "done" => \A n \in VarSet \ Undefaulted : Resolved(v[n])

\* an empty file was decoded and every variable took its default
C3_Witness ==
  /\ pc = "done"
  /\ file = << >>
  /\ v["nh"] = defaultValues["nh"]
  /\ v["qu"] = List(<< defaultValues["qu"], defaultValues["qu"] >>)
  /\ v["lmatrices"] = Bool(FALSE)

\* the additional settings of the GUI state assign no registered variable
NoOverride(g) ==
  \A i \in 1..Len(g.additionalSettings) :
    g.additionalSettings[i].name \notin VarSet

\* an optional array that holds no value: None, empty, or None in every slot
Absent(val) ==
  \/ val = None
  \/ val.t = "list" /\ \A i \in 1..Len(val.l) : val.l[i] = None

\* none of the three cross-field rules, as they are documented, applies to M
RulesSilent(m) ==
  /\ (m["case_e0"] = Num(5) \/ m["case_alpha"] = Num(5)) =>
       \A b \in Range(boolVars) : m[b] = Bool(FALSE)
  /\ m["idrel"] = Num(0) => m["lmatrices"] = Bool(FALSE)
  /\ m["iintegral"] = Num(0) => m["ipot"].n <= 3

\* C1: round trip: for a model M built by extractVariables from a valid
\* composition, loadInputFile applied to the text of
\* M.getWriteInputFileString() yields a model equal to M on every List,
\* Scalar and Boolean variable; an optional array that is empty in M comes
\* back without values.  (Stated for the models that no cross-field rule
\* has to repair.)
C1_RoundTrip ==
  (/\ pc = "done" /\ gui # NoGui /\ NoOverride(gui)
   /\ RulesSilent(settings.vars)) =>
    \A n \in VarSet \ Range(customVars) :
      IF n \in sparseVars /\ Len(settings.vars[n].l) = 0
      THEN Absent(v[n])
      ELSE v[n] = settings.vars[n]

FortranTokens ==
  { ".true.", ".TRUE.", ".True.", ".false.", ".FALSE.", ".False." }

\* the line gives a registered variable a value that cannot be coerced to
\* the variable's kind
Uncoercible(line) ==
  /\ Registered(line)
  /\ line.name \notin Range(customVars)
  /\ IF line.name \in Range(boolVars) THEN line.data[1] \notin FortranTokens
     ELSE IF line.name = "symbol" THEN FALSE
     ELSE IF line.name \in Range(listVars) /\ line.idx = NoIdx
     THEN \E i \in 1..Len(line.data) : ~IsNum(line.data[i])
     ELSE ~IsNum(line.data[1])

\* C4: every line that gives a registered variable a value that cannot be
\* coerced to its kind produces at least one alert in the returned list.
C4_BadValueAlerted ==
  pc = "done" =>
    \A i \in 1..Len(file) : Uncoercible(file[i]) => AlertsOfLine(i + 1) # {}

PhaseRank(a) ==
  CASE a.phase = "scan" -> 1 [] a.phase = "default" -> 2
    [] a.phase = "repair" -> 3

\* the number of the cross-field rule an alert of the repair pass belongs to
RuleOf(a) ==
  CASE a.kind \in { "case_e0=5", "case_alpha=5" } -> 1
    [] a.kind = "idrel=0" -> 2
    [] a.kind = "iintegral=0" -> 3
    [] OTHER -> 0

\* C5: in the alert list the alerts raised while scanning come first, in
\* ascending line order, then the 'missing' alerts in varNames order, then
\* the cross-field alerts in rule order 1, 2, 3.
C5_AlertOrdering ==
  \A i \in 1..Len(alerts) : \A j \in 1..Len(alerts) :
    i < j =>
      /\ PhaseRank(alerts[i]) <= PhaseRank(alerts[j])
      /\ (alerts[i].phase = "scan" /\ alerts[j].phase = "scan") =>
           alerts[i].line <= alerts[j].line
      /\ (alerts[i].phase = "default" /\ alerts[j].phase = "default") =>
           IndexOf(alerts[i].var) < IndexOf(alerts[j].var)
      /\ (alerts[i].phase = "repair" /\ alerts[j].phase = "repair") =>
           RuleOf(alerts[i]) <= RuleOf(alerts[j])

\* a returned list with scanning alerts of two lines, two 'missing' alerts
\* and alerts of all three cross-field rules
C5_Witness ==
  /\ pc = "done"
  /\ \E i \in 1..Len(alerts) : \E j \in 1..Len(alerts) :
       /\ alerts[i].phase = "scan" /\ alerts[j].phase = "scan"
       /\ alerts[i].line < alerts[j].line
  /\ \E i \in 1..Len(alerts) : \E j \in 1..Len(alerts) :
       /\ alerts[i].phase = "default" /\ alerts[j].phase = "default"
       /\ i # j
  /\ \A r \in 1..3 : \E i \in 1..Len(alerts) :
       alerts[i].phase = "repair" /\ RuleOf(alerts[i]) = r

\* a line that assigns one number to a Scalar variable with a range
RangedScalarLine(line) ==
  /\ Registered(line)
  /\ line.name \in DOMAIN validRange
  /\ line.name \notin Range(listVars)
  /\ IsNum(line.data[1])

\* the value the scalar branch hands to checkValueRange
Handed(line) ==
  IF line.name = "case_e0" /\ ParseFloat(line.data[1]) = 4 THEN 0
  ELSE ParseFloat(line.data[1])

Clamp(name, x) ==
  IF x < validRange[name][1] THEN validRange[name][1]
  ELSE IF x > validRange[name][2] THEN validRange[name][2] ELSE x

\* C6: a Scalar value inside its registered range is stored unchanged and
\* emits no clamp alert; a value outside is stored as the nearest bound and
\* emits exactly one alert for that variable and line.
C6_ScalarClamping ==
  (pc = "scan" /\ lineNr >= 1 /\ RangedScalarLine(file[lineNr])) =>
    LET line == file[lineNr]
        x == Handed(line)
        mine == { k \in AlertsOfLine(lineNr + 1) :
                    /\ alerts[k].var = line.name
                    /\ alerts[k].kind \in { "clamped", "failed" } }
    IN IF Clamp(line.name, x) = x
       THEN v[line.name] = Num(x) /\ mine = {}
       ELSE v[line.name] = Num(Clamp(line.name, x)) /\ Cardinality(mine) = 1

\* the positions of the lines of the file that name the variable
LinesOf(name) ==
  { i \in 1..Len(file) : file[i].eq /\ file[i].name = name }

\* C7: each element of a List variable with a registered range is clamped
\* into the range in the returned model, with an alert for the clamp;
\* inel0 = 0 decodes to 1 in that slot.
C7_ListClamping ==
  pc = "done" =>
    \A p \in LinesOf("inel0") :
      (/\ LinesOf("inel0") = { p }
       /\ Registered(file[p]) /\ file[p].idx = NoIdx
       /\ \A i \in 1..Len(file[p].data) : IsNum(file[p].data[i])) =>
        LET data == file[p].data
        IN /\ Len(v["inel0"].l) >= Len(data)
           /\ \A i \in 1..Len(data) :
                v["inel0"].l[i] = Num(Clamp("inel0", ParseFloat(data[i])))
           /\ (\E i \in 1..Len(data) :
                 Clamp("inel0", ParseFloat(data[i])) # ParseFloat(data[i]))
                => AlertsOfLine(p + 1) # {}

\* a whole-list assignment to symbol that reaches the list branch
WholeSymbolLine(line) ==
  Registered(line) /\ line.name = "symbol" /\ line.idx = NoIdx

\* C8: for a whole-list symbol line every unresolvable entry is replaced by
\* 'H' at its position, every resolvable entry is stored unchanged with the
\* quotes stripped, and there is exactly one alert per replaced entry,
\* naming its 1-based position.
C8_SymbolListRepair ==
  (pc = "scan" /\ lineNr >= 1 /\ WholeSymbolLine(file[lineNr])) =>
    LET data == file[lineNr].data
        here == AlertsOfLine(lineNr + 1)
        known(i) == Unquote(data[i]) \in ElementSymbols
    IN /\ v["symbol"].t = "list"
       /\ Len(v["symbol"].l) = Len(data)
       /\ \A i \in 1..Len(data) :
            /\ v["symbol"].l[i] =
                 Str(IF known(i) THEN Unquote(data[i]) ELSE "H")
            /\ Cardinality({ k \in here : alerts[k].kind = "symbolUnknown"
                                          /\ alerts[k].idx = i })
                 = (IF known(i) THEN 0 ELSE 1)
       /\ \A k \in here :
            alerts[k].kind = "symbolUnknown" /\ alerts[k].idx \in 1..Len(data)

\* the line symbol = "H", "XX" has been read: the second entry became 'H'
\* and the one alert of the line names position 2
C8_Witness ==
  /\ pc = "scan"
  /\ lineNr >= 1
  /\ file[lineNr] = Line("symbol", << Quote("H"), Quote("XX") >>)
  /\ v["symbol"] = List(<< Str("H"), Str("H") >>)
  /\ \E k \in AlertsOfLine(lineNr + 1) :
       alerts[k].kind = "symbolUnknown" /\ alerts[k].idx = 2

\* C9: after loadInputFile returns, every entry of the symbol list resolves
\* in the element database, for any sequence of whole-list and indexed
\* assignments.
C9_SymbolsResolve ==
  pc = "done" =>
    \A i \in 1..Len(v["symbol"].l) :
      /\ v["symbol"].l[i].t = "str"
      /\ elementFromSymbol(v["symbol"].l[i].s) # None

\* the saved file is otherwise complete and valid: the additional settings
\* assign no registered variable and no unknown one, lmatrices is not set
\* together with the sweep, and iintegral = 0 only comes with ipot <= 3
OtherwiseValid(g) ==
  /\ NoOverride(g)
  /\ \A i \in 1..Len(g.additionalSettings) :
       \/ allVarNames = None
       \/ g.additionalSettings[i].name \in allVarNames.names
  /\ ~g.outputMatrices
  /\ g.interactPot > 3 => g.integrationMethod # 0

\* C10: whenever the decoded case_e0 or case_alpha equals 5, the returned
\* model has lparticle_p = lparticle_r = false; for an otherwise complete
\* and valid file with case_e0 = 5 and lparticle_p = lparticle_r = .true.
\* the alert list has exactly two entries.
C10_SweepRule ==
  pc = "done" =>
    /\ (v["case_e0"] = Num(5) \/ v["case_alpha"] = Num(5)) =>
         (v["lparticle_p"] = Bool(FALSE) /\ v["lparticle_r"] = Bool(FALSE))
    /\ (/\ gui # NoGui
        /\ OtherwiseValid(gui)
        /\ gui.kinEnergyType = 5
        /\ gui.outputReflected /\ gui.outputSputtered) =>
         Len(alerts) = 2

\* positions of the alerts of the repair pass that belong to rule r
RuleAlerts(r) ==
  { k \in 1..Len(alerts) :
      alerts[k].phase = "repair" /\ RuleOf(alerts[k]) = r }

\* C11: whenever the decoded idrel equals 0 the returned model has
\* lmatrices = false; rule 2 is applied at most once and emits its alert
\* only when it changes lmatrices itself: there is no rule-2 alert when
\* lmatrices has already been set to false at that point.
C11_Rule2 ==
  pc = "done" =>
    /\ v["idrel"] = Num(0) => v["lmatrices"] = Bool(FALSE)
    /\ Cardinality(RuleAlerts(2)) <= 1
    /\ RuleAlerts(2) # {} =>
         ~ \E k \in RuleAlerts(1) : alerts[k].var = "lmatrices"

\* the file sets iintegral once, to 0, and the decoded ipot is at most 3
IntegralZeroLowPot ==
  /\ LinesOf("iintegral") # {}
  /\ \A p \in LinesOf("iintegral") : file[p] = Line("iintegral", << "0" >>)
  /\ v["ipot"].n <= 3

\* C12: rule 3 is triggered only by iintegral = 0 together with ipot > 3:
\* a rule-3 alert implies ipot > 3, and with iintegral = 0 and ipot <= 3 the
\* value 0 is kept.
C12_Rule3 ==
  pc = "done" =>
    /\ RuleAlerts(3) # {} => v["ipot"].n > 3
    /\ IntegralZeroLowPot => v["iintegral"] = Num(0)

\* the table column and the database field behind each optional array
SparseColumns ==
  [ dns0 |-> << "atomicDensity", "atomic_density" >>,
    e_surfb |-> << "surfBindEnergy", "surface_binding_energy" >>,
    e_displ |-> << "displEnergy", "displacement_energy" >> ]

\* no beam or target entry of g customizes the property behind n
NoCustom(g, n) ==
  \A i \in 1..Len(g.beamComp \o g.targetComp) :
    LET e == (g.beamComp \o g.targetComp)[i]
    IN e[SparseColumns[n][1]] = e.element[SparseColumns[n][2]]

\* no additional setting of g assigns an optional array
NoSparseOverride(g) ==
  \A i \in 1..Len(g.additionalSettings) :
    g.additionalSettings[i].name \notin sparseVars

C14_ListLength ==
  /\ settings # None =>
       \A n \in Range(listVars) :
         Len(settings.vars[n].l) \in { 0, settings.vars["ncp"].n }
  /\ pc = "done" =>
       \A n \in Range(listVars) :
         (v[n] # None /\ Len(v[n].l) > 0) => Len(v[n].l) = v["ncp"].n

\* a 'name = value' line whose bare name is not registered, not
\* ignore-prefixed and not sentinel-prefixed (the separator keyword text and
\* the empty name are not names)
ExtraLine(line) ==
  /\ line.eq
  /\ ~line.bang
  /\ line.name \notin VarSet \cup { "", "text" }
  /\ ~ \E i \in 1..Len(ignoredVars) : StartsWith(line.name, ignoredVars[i])

\* C15: every line read so far whose bare name is not registered (and not
\* ignore- or sentinel-prefixed) is in additionalSettings exactly once, in
\* file order; it has one 'Unknown variable' alert if allVarNames is loaded
\* and lacks the name, and none otherwise; with allVarNames = None there is
\* no such alert at all.
C15_UnknownKept ==
  LET unregistered(l) == l.name \notin VarSet
  IN /\ SelectSeq(additionalSettings, unregistered)
          = SelectSeq(SubSeq(file, 1, lineNr), ExtraLine)
     /\ \A i \in 1..lineNr :
          ExtraLine(file[i]) =>
            Cardinality({ k \in AlertsOfLine(i + 1) :
                            alerts[k].kind = "unknownVar" })
              = (IF allVarNames # None /\ file[i].name \notin allVarNames.names
                 THEN 1 ELSE 0)
     /\ allVarNames = None =>
          \A k \in 1..Len(alerts) : alerts[k].kind # "unknownVar"

\* with the universe loaded, a file with an unknown and a known unregistered
\* name was decoded: both lines are kept in order, only the first alerts
C15_Witness ==
  /\ pc = "done"
  /\ allVarNames # None
  /\ file = << Line("foo", << "1" >>), Line("qu_int", << "1" >>) >>
  /\ additionalSettings = file
  /\ { k \in 1..Len(alerts) : alerts[k].kind = "unknownVar" } = { 1 }
  /\ alerts[1].line = 2

\* the abundances a_2..a_ncp stored in the row of layer i, in hundredths
StoredAbundances(i) ==
  [j \in 1..(settings.vars["ncp"].n - 1) |->
     (settings.allAbundances[i][j + 1] + 5) \div 10]

\* C16: for a layer file written for ncp elements, each layer row with the
\* stored abundances a_2..a_ncp decodes to one entry whose abundance list
\* has ncp entries and equals [1 - (a_2 + ... + a_ncp), a_2, ..., a_ncp];
\* there are as many entries as layer rows and the sentinel row is not one
\* of them.
C16_LayersDecoded ==
  pc = "loaded" =>
    /\ targetLayers # None
    /\ Len(targetLayers.l) = Len(settings.targetLayers)
    /\ Len(targetLayers.l) = Len(layersFile) - 3
    /\ \A i \in 1..Len(targetLayers.l) :
         /\ Len(targetLayers.l[i].abundances) = settings.vars["ncp"].n
         /\ targetLayers.l[i].abundances =
              << Whole - SumSeq(StoredAbundances(i)) >> \o StoredAbundances(i)
         /\ targetLayers.l[i].segmentCount
              = settings.targetLayers[i].segmentCount
         /\ targetLayers.l[i].layerName = settings.targetLayers[i].layerName

\* a file of three layers for three elements was decoded; the row that
\* stores 0.33 and 0.67 gave [0, 0.33, 0.67]
C16_Witness ==
  /\ pc = "loaded"
  /\ settings.vars["ncp"] = Num(3)
  /\ Len(targetLayers.l) = 3
  /\ layersFile[4] = << "1", "2.50", "0.33", "0.67", "Layer2" >>
  /\ targetLayers.l[2].abundances = << 0, 33, 67 >>
  /\ layersFile[6][Len(layersFile[6])] = "end"

RECURSIVE Balanced(_, _)
\* every ")" of the chunks closes an earlier "(" and none of the open stay
\* open
Balanced(lhs, open) ==
  IF lhs = << >> THEN open = 0
  ELSE IF Head(lhs) = "(" THEN Balanced(Tail(lhs), open + 1)
  ELSE IF Head(lhs) = ")" THEN open > 0 /\ Balanced(Tail(lhs), open - 1)
  ELSE Balanced(Tail(lhs), open)

\* the line violates one of the four rules for additional settings
ViolatesRule(a) ==
  \/ EqCount(a) # 1
  \/ RhsEmpty(a)
  \/ ~Balanced(Lhs(a), 0)
  \/ allVarNames # None /\ BeforeParen(Lhs(a)) \notin allVarNames.names

\* C17: checkForAdditionalSettingErrors reports at least one finding for a
\* line if and only if the line violates one of the four rules (one '=',
\* non-empty value, balanced parentheses on the left, known bare name when
\* allVarNames is loaded); additionalSettings is left as it was.
C17_FindingsIffViolation ==
  settings # None =>
    /\ settings.additionalSettings = gui.additionalSettings
    /\ \A i \in 1..Len(settings.additionalSettings) :
         (\E k \in 1..Len(errors) : errors[k].line = i - 1)
           <=> ViolatesRule(settings.additionalSettings[i])

\* the position of the 'extra' separator, Len(file) + 1 if there is none
ExtraAt ==
  IF \E i \in 1..Len(file) : file[i] = getHeader("extra")
  THEN CHOOSE i \in 1..Len(file) :
         /\ file[i] = getHeader("extra")
         /\ \A j \in 1..(i - 1) : file[j] # getHeader("extra")
  ELSE Len(file) + 1

\* the positions of the lines the writer emitted for registered variables
VarLinesAt ==
  { i \in 1..(ExtraAt - 1) : file[i].eq /\ file[i].name \in VarSet }

\* the block labels and the variables said to carry them
Carriers ==
  { << "general", "nh" >>, << "beam", "qubeam" >>, << "target", "qu" >>,
    << "output options", "lparticle_p" >> }

\* the separator with the label stands exactly once in the file, and the
\* lines after it up to the carrier's own line are the carrier's
SeparatorBefore(label, carrier) ==
  /\ Cardinality({ h \in 1..Len(file) : file[h] = getHeader(label) }) = 1
  /\ \A h \in 1..Len(file) :
       file[h] = getHeader(label) =>
         \E i \in VarLinesAt :
           /\ i > h
           /\ file[i].name = carrier
           /\ \A k \in (h + 1)..(i - 1) : file[k].name = "ioutput_part"

\* C18: the written file has the variables in varNames declaration order;
\* each block separator appears exactly once, immediately before the lines
\* of the variable that carries its label; the lines of dns0, e_surfb and
\* e_displ are absent exactly when their lists are empty.
C18_WriterLayout ==
  (gui # NoGui /\ pc = "scan" /\ lineNr = 0) =>
    /\ \A i \in VarLinesAt : \A j \in VarLinesAt :
         i < j => IndexOf(file[i].name) < IndexOf(file[j].name)
    /\ \A c \in Carriers : SeparatorBefore(c[1], c[2])
    /\ \A n \in sparseVars :
         (\E i \in VarLinesAt : file[i].name = n)
           <=> Len(settings.vars[n].l) > 0

\* a model with custom densities only and lparticle_p set was written: the
\* file has a dns0 line, no e_surfb line and the companion of lparticle_p
C18_Witness ==
  /\ pc = "scan"
  /\ lineNr = 0
  /\ gui # NoGui
  /\ gui.outputReflected
  /\ \E i \in VarLinesAt : file[i].name = "dns0"
  /\ ~ \E i \in VarLinesAt : file[i].name = "e_surfb"
  /\ \E i \in 1..(Len(file) - 2) :
       /\ file[i] = getHeader("output options")
       /\ file[i + 1].name = "ioutput_part"
       /\ file[i + 2].name = "lparticle_p"

\* the positions of the 'extra' separator in the file
ExtraSeparators == { h \in 1..Len(file) : file[h] = getHeader("extra") }

\* C19: the written file holds every entry of additionalSettings verbatim
\* and in order, directly after the 'extra' separator and before the
\* terminating '/' line; when additionalSettings is empty there is no
\* 'extra' separator.
C19_ExtraLines ==
  (pc = "scan" /\ lineNr = 0 /\ settings # None) =>
    LET add == settings.additionalSettings
    IN /\ file[Len(file)] = RawLine("/")
       /\ IF Len(add) = 0 THEN ExtraSeparators = {}
          ELSE /\ Cardinality(ExtraSeparators) = 1
               /\ \A h \in ExtraSeparators :
                    /\ h + Len(add) < Len(file)
                    /\ SubSeq(file, h + 1, h + Len(add)) = add

\* a model with the tableinp line and two typed lines was written: the
\* three lines follow the separator in their order, '/' comes last
C19_Witness ==
  /\ pc = "scan"
  /\ lineNr = 0
  /\ settings # None
  /\ settings.additionalSettings =
       << TableInpLine, SettingText(<< "foo" >>, 1, "1"),
          SettingText(<< "qu_int" >>, 2, "1") >>
  /\ Len(file) > 6
  /\ file[Len(file) - 5] = getHeader("extra")
  /\ file[Len(file) - 3] = SettingText(<< "foo" >>, 1, "1")
  /\ file[Len(file)] = RawLine("/")

\* the row of layer i in the written layer file (two title rows come first)
LayerRow(i) == layersFile[i + 2]

\* the sentinel row of a layer file for ncp elements
SentinelRow(ncp) ==
  << "0", "0.00" >> \o [j \in 1..(ncp - 1) |-> "0.00"] \o << "end" >>

\* C20 as stated: the thickness column of every layer row equals
\* segmentCount x segmentThickness of that layer.
C20_ThicknessIsProduct ==
  pc \in { "layers", "loaded" } =>
    \A i \in 1..Len(settings.targetLayers) :
      LayerRow(i)[2] =
        Fmt2(settings.targetLayers[i].segmentCount
             * settings.targetLayers[i].segmentThickness)

\* C20 amended: every layer row holds the segment count, then the segment
\* thickness of that layer (not multiplied by the count), then the
\* abundances of elements 2..ncp only (ncp-1 columns), then the layer name;
\* the file ends with one sentinel row of zeros named 'end'.
C20_LayerRows ==
  pc \in { "layers", "loaded" } =>
    LET ncp == settings.vars["ncp"].n
        n == Len(settings.targetLayers)
    IN /\ Len(layersFile) = n + 3
       /\ layersFile[n + 3] = SentinelRow(ncp)
       /\ \A i \in 1..n :
            LET l == settings.targetLayers[i]
            IN /\ Len(LayerRow(i)) = 2 + (ncp - 1) + Len(Words(l.layerName))
               /\ LayerRow(i)[1] = ToStr(l.segmentCount)
               /\ LayerRow(i)[2] = Fmt2(l.segmentThickness)
               /\ \A j \in 1..(ncp - 1) :
                    LayerRow(i)[2 + j] = Fmt2(settings.allAbundances[i][j + 1])
               /\ SubSeq(LayerRow(i), ncp + 2, Len(LayerRow(i)))
                    = Words(l.layerName)

\* a layer file for He and W was written: the layer of 5 segments of 2.0
\* with abundances 0.3 and 0.7 gave the row 5, 2.00, 0.70, Layer1
C20_Witness ==
  /\ pc = "layers"
  /\ settings.vars["ncp"] = Num(2)
  /\ settings.targetLayers[1].segmentCount = 5
  /\ settings.targetLayers[1].segmentThickness = 2000
  /\ settings.allAbundances[1] = << 300, 700 >>
  /\ layersFile[3] = << "5", "2.00", "0.70", "Layer1" >>
  /\ layersFile[Len(layersFile)] = << "0", "0.00", "0.00", "end" >>

\* the entry of the composition table for the symbol (its first one)
EntryOf(comp, symbol) == comp[FirstIdx(comp, symbol)]

\* C21: for an element present in both beam and target, extractVariables
\* takes inel0 and qumax from the target entry; for an element present on
\* only one side it takes them from that side.
C21_TargetPreferred ==
  settings # None =>
    \A k \in 1..Len(gui.symbols) :
      LET sym == gui.symbols[k]
          src == IF FirstIdx(gui.targetComp, sym) >= 1
                 THEN EntryOf(gui.targetComp, sym)
                 ELSE EntryOf(gui.beamComp, sym)
      IN /\ settings.vars["inel0"].l[k] = Num(src.inelLossModel + 1)
         /\ settings.vars["qumax"].l[k] = Num(src.maxConcentration)

\* C22: after extractVariables each of dns0, e_surfb and e_displ is,
\* independently per property, empty when every beam and target entry's
\* value equals its element's database default for that property, and has
\* exactly ncp entries, one per element in element order, when at least one
\* entry deviates.
C22_SparseEncoding ==
  settings # None =>
    \A n \in sparseVars :
      IF NoCustom(gui, n)
      THEN settings.vars[n] = List(<< >>)
      ELSE /\ Len(settings.vars[n].l) = settings.vars["ncp"].n
           /\ \A k \in 1..Len(gui.symbols) :
                LET sym == gui.symbols[k]
                    src == IF FirstIdx(gui.targetComp, sym) >= 1
                           THEN EntryOf(gui.targetComp, sym)
                           ELSE EntryOf(gui.beamComp, sym)
                IN settings.vars[n].l[k] = Num(src[SparseColumns[n][1]])

\* only the surface binding energy of the target entry deviates: e_surfb
\* has an entry for each of the two elements, dns0 and e_displ are empty
C22_Witness ==
  /\ pc = "extracted"
  /\ NoCustom(gui, "dns0")
  /\ ~NoCustom(gui, "e_surfb")
  /\ settings.vars["ncp"] = Num(2)
  /\ settings.vars["dns0"] = List(<< >>)
  /\ settings.vars["e_surfb"] = List(<< Num(1), Num(3) >>)
  /\ settings.vars["e_displ"] = List(<< >>)

\* the line assigns a registered variable values of its kind that lie
\* inside the variable's registered range, to the whole variable or to a
\* 1-based slot
ValidAssignment(line) ==
  /\ Registered(line)
  /\ ~Uncoercible(line)
  /\ line.idx = NoIdx \/ (line.idx >= 1 /\ line.name \in Range(listVars))
  /\ line.name = "occurrence" =>
       \A i \in 1..Len(line.data) : line.data[i] \in OccTokens
  /\ line.name = "case_e0" => line.data[1] # "4"
  /\ line.name \in DOMAIN validRange =>
       \A i \in 1..(IF line.idx = NoIdx THEN Len(line.data) ELSE 1) :
         /\ IsNum(line.data[i])
         /\ Clamp(line.name, ParseFloat(line.data[i])) = ParseFloat(line.data[i])

\* positions of the 'missing' alerts of the defaulting pass for the variable
MissingAlerts(n) ==
  { k \in 1..Len(alerts) : alerts[k].phase = "default" /\ alerts[k].var = n }

\* the variables the defaulting pass fills without an alert
SilentDefault(n) ==
  \/ n \in sparseVars
  \/ n \in Range(boolVars)
  \/ n \in Range(customVars)
  \/ n = "number_calc" /\ v["case_e0"] # Num(5) /\ v["case_alpha"] # Num(5)

\* C23: for every registered variable that no line of the file sets, the
\* defaulting pass emits exactly one 'missing' alert, except that it emits
\* none for dns0, e_surfb, e_displ, the Boolean variables, the custom
\* variables, and number_calc when neither case_e0 nor case_alpha equals 5;
\* a variable that the file sets validly gets no 'missing' alert.
C23_MissingAlerts ==
  pc = "done" =>
    \A n \in VarSet :
      /\ LinesOf(n) = {} =>
           Cardinality(MissingAlerts(n)) = (IF SilentDefault(n) THEN 0 ELSE 1)
      /\ (LinesOf(n) # {} /\ \A p \in LinesOf(n) : ValidAssignment(file[p])) =>
           MissingAlerts(n) = {}

\* the file sets the numeric List variable only through lines
\* 'name(k) = number' with 1 <= k <= ncp and the number inside the
\* variable's registered range
OnlyIndexed(n) ==
  /\ LinesOf(n) # {}
  /\ \A p \in LinesOf(n) :
       /\ ValidAssignment(file[p])
       /\ file[p].idx \in 1..v["ncp"].n

\* the last line of the file that addresses slot i of the variable, 0 if
\* there is none
LastLineFor(n, i) ==
  IF \E p \in LinesOf(n) : file[p].idx = i
  THEN CHOOSE p \in LinesOf(n) :
         /\ file[p].idx = i
         /\ \A q \in LinesOf(n) : file[q].idx = i => q <= p
  ELSE 0

\* C24: for a List variable of numbers, including one with a registered
\* range such as inel0, a file that sets only some slots through
\* 'name(k) = value' lines decodes to a list of ncp entries whose addressed
\* slots hold the given values and whose other slots hold the registry
\* default, and no alert is emitted for that variable.
C24_IndexedBackfill ==
  pc = "done" =>
    \A n \in Range(listVars) \ { "symbol" } :
      OnlyIndexed(n) =>
        /\ v[n] # None
        /\ Len(v[n].l) = v["ncp"].n
        /\ \A i \in 1..Len(v[n].l) :
             v[n].l[i] =
               (IF LastLineFor(n, i) = 0 THEN defaultValues[n]
                ELSE Num(ParseFloat(file[LastLineFor(n, i)].data[1])))
        /\ \A k \in 1..Len(alerts) : alerts[k].var # n

\* a 'name = value' line whose name starts with ioutput_part or tableinp
IgnorePrefixed(line) ==
  /\ line.eq
  /\ \E prefix \in { "ioutput_part", "tableinp" } :
       StartsWith(line.name, prefix)

\* C25: a line whose name starts with an ignore-prefix leaves the decode
\* result unchanged: reading it sets no variable, adds no entry to
\* additionalSettings and emits no alert, whatever its value text is.
C25_IgnoredLines ==
  [][(lineNr' = lineNr + 1 /\ IgnorePrefixed(file'[lineNr'])) =>
       /\ v' = v
       /\ additionalSettings' = additionalSettings
       /\ alerts' = alerts
       /\ pc' = "scan"]_vars

\* the lines ncp = 3 and tableinp_dir = (no value) have been read: ncp is
\* set, nothing is kept and nothing alerted
C25_Witness ==
  /\ pc = "scan"
  /\ lineNr = 2
  /\ file = << Line("ncp", << "3" >>), Line("tableinp_dir", << "" >>) >>
  /\ v["ncp"] = Num(3)
  /\ additionalSettings = << >>
  /\ alerts = << >>

\* the file sets lmatrices, and the last line that does sets it to .true.
LmatricesSetTrue ==
  /\ LinesOf("lmatrices") # {}
  /\ \A p \in LinesOf("lmatrices") :
       (\A q \in LinesOf("lmatrices") : q <= p) =>
         file[p] = Line("lmatrices", << ".true." >>)

\* the decoded case_e0 or case_alpha selects a sweep
Sweep == v["case_e0"] = Num(5) \/ v["case_alpha"] = Num(5)

\* positions of the alerts about lmatrices
LmatricesAlerts == { k \in 1..Len(alerts) : alerts[k].var = "lmatrices" }

\* C26 as stated: for a file with lmatrices = .true., idrel different from
\* 0 and case_e0 = 5 or case_alpha = 5, the returned lmatrices is still
\* true and no alert about lmatrices is emitted.
C26_OnlyIdrelResets ==
  (pc = "done" /\ LmatricesSetTrue /\ v["idrel"] # Num(0) /\ Sweep) =>
    /\ v["lmatrices"] = Bool(TRUE)
    /\ LmatricesAlerts = {}

\* C26 amended: the cross-field repair pass changes lmatrices because of
\* idrel = 0 and because of a sweep.  For a file with lmatrices = .true. and
\* idrel different from 0: with case_e0 = 5 or case_alpha = 5 the returned
\* lmatrices is false and there is exactly one alert about lmatrices, the
\* rule-1 alert naming the sweep selector; without a sweep the returned
\* lmatrices is true and there is no alert about lmatrices.
C26_SweepResetsLmatrices ==
  (pc = "done" /\ LmatricesSetTrue /\ v["idrel"] # Num(0)) =>
    IF Sweep
    THEN /\ v["lmatrices"] = Bool(FALSE)
         /\ Cardinality(LmatricesAlerts) = 1
         /\ \A k \in LmatricesAlerts :
              /\ alerts[k].phase = "repair"
              /\ alerts[k].kind =
                   (IF v["case_e0"] = Num(5) THEN "case_e0=5"
                    ELSE "case_alpha=5")
    ELSE /\ v["lmatrices"] = Bool(TRUE)
         /\ LmatricesAlerts = {}

\* the file lmatrices = .true., case_alpha = 5 was decoded: lmatrices is
\* false and the only alert about it is the one of the angle sweep
C26_Witness ==
  /\ pc = "done"
  /\ file = << Line("lmatrices", << ".true." >>), Line("case_alpha", << "5" >>) >>
  /\ v["idrel"] = Num(1)
  /\ v["lmatrices"] = Bool(FALSE)
  /\ \E k \in LmatricesAlerts : alerts[k].kind = "case_alpha=5"
  /\ Cardinality(LmatricesAlerts) = 1

\* C27: loadInputFile never puts a line whose bare name is in varNames
\* into additionalSettings, also when allVarNames is loaded and does not
\* list that name.
C27_RegisteredNeverExtra ==
  \A i \in 1..Len(additionalSettings) : additionalSettings[i].name \notin VarSet

RECURSIVE IsSubSeq(_, _)
\* the lines of a are lines of b, in the same order, each taken once
IsSubSeq(a, b) ==
  IF a = << >> THEN TRUE
  ELSE IF b = << >> THEN FALSE
  ELSE IF Head(a) = Head(b) THEN IsSubSeq(Tail(a), Tail(b))
  ELSE IsSubSeq(a, Tail(b))

\* C28: additionalSettings does not grow over save/load cycles: after any
\* number of repetitions of save, load and copying the decoded lines back
\* into the box, the decoded additionalSettings contains neither the
\* injected tableinp line nor the ioutput_part companions, and its lines
\* are lines of the text that was saved, each at most once.
C28_NoGrowth ==
  (pc = "done" /\ gui # NoGui) =>
    /\ \A i \in 1..Len(additionalSettings) :
         ~IgnorePrefixed(additionalSettings[i])
    /\ IsSubSeq(additionalSettings, Tail(gui.additionalSettings))

\* a line 'name(k) = value' for a registered List variable whose value is
\* of the variable's kind
IndexedLine(line) ==
  /\ Registered(line)
  /\ line.idx # NoIdx
  /\ line.name \in Range(listVars)
  /\ line.name = "symbol" \/ IsNum(line.data[1])

\* C29: an indexed assignment 'name(k) = value' changes slot k of the list
\* and no other slot: every slot set by earlier lines keeps its value, and
\* an index outside the 1-based range (k = 0) never overwrites a slot that
\* another line set.
C29_OnlySlotK ==
  [][(lineNr' = lineNr + 1 /\ IndexedLine(file'[lineNr'])) =>
       LET line == file'[lineNr']
           old == v[line.name]
       IN old # None =>
            \A i \in 1..Len(old.l) :
              (i # line.idx /\ old.l[i] # None) =>
                /\ v'[line.name] # None
                /\ Len(v'[line.name].l) >= i
                /\ v'[line.name].l[i] = old.l[i]]_vars

\* the value is a number inside the registered range of the variable
InRange(n, val) ==
  /\ val.t = "num"
  /\ val.n >= validRange[n][1]
  /\ val.n <= validRange[n][2]

\* C30: after loadInputFile returns, every variable with a registered
\* validRange (inel0 per element, iintegral, case_e0, case_alpha, isbv,
\* ipot) holds a value inside that range, whether the value was read from
\* the file, clamped, or filled from the registry default.
C30_ValuesInRange ==
  pc = "done" =>
    \A n \in DOMAIN validRange :
      IF n \in Range(listVars)
      THEN /\ v[n].t = "list"
           /\ \A i \in 1..Len(v[n].l) : InRange(n, v[n].l[i])
      ELSE InRange(n, v[n])

====
